---- MODULE Spec2Model ----
(***************************************************************************)
(* Model of NetworkClass.Network: construction (generate_connections),     *)
(* reset_history and the time-stepping loop of run_model for the LIF and   *)
(* SFA neuron models.                                                      *)
(*                                                                         *)
(* Numbers.  Real quantities (potentials, currents, kernel values, the     *)
(* adaptation fraction) are held in fixed point: the integer x stands for  *)
(* the real x / FP.  Synaptic weights, J, gk, R and all times are whole    *)
(* numbers and are kept unscaled.  Time is counted in milliseconds with    *)
(* dt = 1, so the step index and the simulated time coincide.  Quotients   *)
(* round down where the float code rounds to nearest.                      *)
(***************************************************************************)
EXTENDS Integers, Sequences, FiniteSets, TLC

\* ---------------------------------------------------------------- bounds
MaxSteps == 4      \* largest number of rows of an injected array
FP == 4            \* fixed-point denominator

\* ------------------------------------------- constructor arguments (__init__)
neuron_num == 2
input_num == 1
inh_count == neuron_num \div 2          \* np.int(neuron_num * inh_frac), inh_frac = 0.5
dt == 1
tau == 2
R == 1
Vr == 1 * FP
Vth == 3 * FP
tauRise == 1
tauDec == 2
tauN == 2
J == 4
gk == 1
Vk == (0 - 2) * FP
alpha == FP \div 2
ref == [ty \in {0, 1} |-> IF ty = 0 THEN 1 ELSE 2]        \* (I, E)
tau_psc == [ty \in {0, 1} |-> IF ty = 0 THEN 2 ELSE 1]    \* (I, E)
V_syn == [k \in {0, 1} \X {0, 1} |->
            IF k = <<1, 1>> THEN 5
            ELSE IF k = <<1, 0>> THEN 25
            ELSE 0 - 20]

Neurons == 0 .. (neuron_num - 1)
Inputs == 0 .. (input_num - 1)
Models == {"LIF", "SFA"}
VresetConfigs == {1 * FP, (0 - 1) * FP}   \* the constructor's Vreset (a drop below Vth)
NEVER == 0 - 1                           \* np.full(..., -1): no spike / activation yet

VARIABLES
  model_type,         \* self.model_type
  VresetConfig,       \* the constructor argument Vreset
  type_array,         \* self.type_array: 0 inhibitory, 1 excitatory
  connections,        \* self.connections[row][column]
  input_connections,  \* self.input_connections[neuron][channel]
  t,                  \* self.t
  input_t,            \* self.input_t: last activation of every input channel
  spikes,             \* self.spikes
  spikes_t,           \* self.spikes_t
  Vs,                 \* self.Vs
  Is,                 \* self.Is
  EPSC,               \* self.EPSC
  n,                  \* self.n
  Ia,                 \* self.Ia
  active,             \* self.active, as the set of indices it holds
  Vseq, spikes_seq, EPSC_seq, n_seq,   \* recorded series, column k = step k
  I_seq,              \* self.I_seq: the rows of I read so far
  I_shape,            \* I.shape = <<rows, columns>>
  input_type,         \* run_model's argument
  I_cur,              \* run_model's local I_cur
  i,                  \* run_model's loop index (0 before the first step)
  pc                  \* "idle", "running", "done", "failed" (an exception left run_model)

topology == <<model_type, VresetConfig, type_array, connections, input_connections>>
runstate == <<t, input_t, spikes, spikes_t, Vs, Is, EPSC, n, Ia, active>>
history == <<Vseq, spikes_seq, EPSC_seq, n_seq, I_seq>>
control == <<I_shape, input_type, I_cur, i, pc>>
vars == <<topology, runstate, history, control>>

\* ------------------------------------------------------------ construction
\* variant: the argument taken as a rise above the threshold
Vreset_Raised(cfg) == Vth + cfg

\* self.Vreset = Vth - Vreset
Vreset(cfg) == Vth - cfg

\* type_array = ones; type_array[inh_idx] = 0
TypeArray(inh_idx) == [j \in Neurons |-> IF j \in inh_idx THEN 0 ELSE 1]

\* i // (neuron_num / clusters)
ClusterOf(j, clusters) == j \div (neuron_num \div clusters)

\* body of the input loop of generate_connections; draw is rand() < connect_pr
InputConnection(j, ty, clusters, draw) ==
  IF j < neuron_num \div clusters /\ draw THEN V_syn[<<ty[j], 1>>] ELSE 0

\* variant: the neuron-pair loop without its `if i == j: continue`
Connection_NoDiagonalSkip(a, b, ty, clusters, draw) ==
  IF ClusterOf(a, clusters) # ClusterOf(b, clusters) /\ clusters > 1 /\ ~(a > b)
  THEN 0
  ELSE IF draw THEN V_syn[<<ty[a], ty[b]>>] ELSE 0

\* body of the neuron-pair loop of generate_connections
Connection(a, b, ty, clusters, draw) ==
  IF a = b THEN 0
  ELSE IF ClusterOf(a, clusters) # ClusterOf(b, clusters) /\ clusters > 1 /\ ~(a > b)
       THEN 0                                   \* connect_pr = 0
  ELSE IF draw THEN V_syn[<<ty[a], ty[b]>>] ELSE 0

\* self.connections_bool, self.in_connections_bool
connections_bool(conn) == [a \in Neurons |-> [b \in Neurons |-> IF conn[a][b] # 0 THEN 1 ELSE 0]]
in_connections_bool(inconn) == [a \in Neurons |-> [c \in Inputs |-> IF inconn[a][c] # 0 THEN 1 ELSE 0]]

ZeroVec == [j \in Neurons |-> 0]

Init ==
  /\ model_type \in Models
  /\ VresetConfig \in VresetConfigs
  /\ \E inh_idx \in {S \in SUBSET Neurons : Cardinality(S) = inh_count},
        clusters \in {1, 2},
        in_draw \in [Neurons \X Inputs -> BOOLEAN],
        conn_draw \in [Neurons \X Neurons -> BOOLEAN] :
       /\ type_array = TypeArray(inh_idx)
       /\ input_connections = [j \in Neurons |-> [c \in Inputs |->
              InputConnection(j, TypeArray(inh_idx), clusters, in_draw[<<j, c>>])]]
       /\ connections = [a \in Neurons |-> [b \in Neurons |->
              Connection(a, b, TypeArray(inh_idx), clusters, conn_draw[<<a, b>>])]]
  /\ t = 0
  /\ input_t = [c \in Inputs |-> NEVER]
  /\ spikes = [j \in Neurons |-> FALSE]
  /\ spikes_t = [j \in Neurons |-> NEVER]
  /\ Vs = [j \in Neurons |-> Vr]
  /\ Is = ZeroVec
  /\ EPSC = ZeroVec
  /\ n = ZeroVec
  /\ Ia = ZeroVec
  /\ active = {}
  /\ Vseq = <<>> /\ spikes_seq = <<>> /\ EPSC_seq = <<>> /\ n_seq = <<>> /\ I_seq = <<>>
  /\ I_shape = <<0, 0>>
  /\ input_type = 0
  /\ I_cur = <<>>
  /\ i = 0
  /\ pc = "idle"

\* ------------------------------------------------------------- arithmetic
\* product of two fixed-point quantities
Mul(x, y) == (x * y) \div FP

Pow2(k) == IF k <= 0 THEN 1 ELSE 2 ^ k

\* np.exp(-d / tc) in fixed point.  The time constants are 1 or 2 and the unit
\* of time is such that exp(-1/2) = 1/2: tc = 2 halves the value every step,
\* tc = 1 quarters it.  A negative d gives a value above 1, as np.exp does.
ExpNeg(d, tc) ==
  LET k == (2 * d) \div tc
  IN IF k >= 0 THEN FP \div Pow2(k) ELSE FP * Pow2(0 - k)

\* np.heaviside(d, 1)
Heaviside(d) == IF d < 0 THEN 0 ELSE 1

RECURSIVE SumTo(_, _)
\* f[0] + ... + f[k]
SumTo(f, k) == IF k < 0 THEN 0 ELSE f[k] + SumTo(f, k - 1)

\* numpy's matrix.dot(vector), entry a: the sum over the columns b of M[a][b] * v[b]
Dot(M, v, cols, a) == SumTo([b \in 0 .. (cols - 1) |-> M[a][b] * v[b]], cols - 1)

\* ------------------------------------------------------------ neuron models
\* synaptic_current_LIF, for the spike times st at time now
synaptic_current_LIF(now, st, ty) ==
  [j \in Neurons |-> IF st[j] < 0 THEN 0
                     ELSE ExpNeg(now - st[j], tau_psc[ty[j]]) * Heaviside(now - st[j])]

\* input_current_LIF, for the activation times it at time now
input_current_LIF(now, it) ==
  [c \in Inputs |-> IF it[c] < 0 THEN 0
                    ELSE ExpNeg(now - it[c], tau_psc[0]) * Heaviside(now - it[c])]

\* synaptic_current_SFA
synaptic_current_SFA(now, st) ==
  [j \in Neurons |-> IF st[j] < 0 THEN 0
                     ELSE J * (ExpNeg(now - st[j], tauDec) - ExpNeg(now - st[j], tauRise))]

\* input_current_SFA
input_current_SFA(now, it) ==
  [c \in Inputs |-> IF it[c] < 0 THEN 0
                    ELSE J * (ExpNeg(now - it[c], tauDec) - ExpNeg(now - it[c], tauRise))]

\* self.synaptic_current / self.input_current as bound in __init__
synaptic_current(m, now, st, ty) ==
  IF m = "SFA" THEN synaptic_current_SFA(now, st) ELSE synaptic_current_LIF(now, st, ty)

input_current(m, now, it) ==
  IF m = "SFA" THEN input_current_SFA(now, it) ELSE input_current_LIF(now, it)

\* LIF(): the derivative of the active neurons (any value elsewhere is unused)
LIF(V, Icur) == [j \in Neurons |-> (Vr - V[j] + Icur[j] * R) \div tau]

\* K_frac(): the new self.n
K_frac(now, st, nn) ==
  [j \in Neurons |->
     LET time == IF now - st[j] <= 1 /\ st[j] > 0 THEN 1 ELSE 0
     IN nn[j] - dt * ((nn[j] \div tauN) - Mul(alpha, FP - nn[j]) * time)]

\* SFA(): self.Ia once self.n is updated
AdaptationCurrent(nn, V) == [j \in Neurons |-> gk * Mul(nn[j], V[j] - Vk)]

\* SFA(): the returned derivative
SFA(V, Icur, ia) == [j \in Neurons |-> (Vr - V[j] + (Icur[j] - ia[j]) * R) \div tau]

\* ------------------------------------------------------------ reset_history
\* variant: reset_history without its assignment of self.Is
ResetHistory_KeepIs ==
  /\ spikes' = [j \in Neurons |-> FALSE]
  /\ spikes_t' = [j \in Neurons |-> NEVER]
  /\ Vs' = [j \in Neurons |-> Vr]
  /\ Is' = Is
  /\ EPSC' = ZeroVec
  /\ n' = ZeroVec
  /\ Ia' = ZeroVec
  /\ active' = {}
  /\ UNCHANGED <<t, input_t>>

\* the fields reset_history assigns; self.input_t and self.t are not among them
\* (self.active becomes an array of zeros that every step replaces at lines
\* 255-260 before reading it; it is held here as the empty index set)
ResetHistory ==
  /\ spikes' = [j \in Neurons |-> FALSE]
  /\ spikes_t' = [j \in Neurons |-> NEVER]
  /\ Vs' = [j \in Neurons |-> Vr]
  /\ Is' = ZeroVec
  /\ EPSC' = ZeroVec
  /\ n' = ZeroVec
  /\ Ia' = ZeroVec
  /\ active' = {}
  /\ UNCHANGED <<t, input_t>>

\* -------------------------------------------------------------- run_model
\* values an entry of the injected array takes: a current (input_type 0) or
\* a spike flag (input_type 1)
IHigh == 8 * FP
InputValues(itype) == IF itype = 1 THEN {0, 1} ELSE {0, IHigh}

\* row counts tried for I (I.shape[0])
RowCounts == {1, MaxSteps}

\* column counts tried for I: the matching one, smaller ones and one too many
Widths(itype) == 1 .. ((IF itype = 1 THEN input_num ELSE neuron_num) + 1)

\* a series buffer of rows + 1 zero columns (np.zeros)
ZeroSeries(rows) == [k \in 0 .. rows |-> ZeroVec]

\* run_model up to the loop: reset_history and the allocation of the series
StartRun ==
  /\ pc \in {"idle", "done", "failed"}
  /\ \E itype \in {0, 1} : \E rows \in RowCounts : \E cols \in Widths(itype) :
       /\ input_type' = itype
       /\ I_shape' = <<rows, cols>>
       /\ pc' = IF rows = 0 THEN "done" ELSE "running"
       /\ Vseq' = [ZeroSeries(rows) EXCEPT ![0] = [j \in Neurons |-> Vr]]
       /\ spikes_seq' = ZeroSeries(rows)
       /\ EPSC_seq' = ZeroSeries(rows)
       /\ n_seq' = ZeroSeries(rows)
  /\ ResetHistory
  /\ I_seq' = <<>>
  /\ I_cur' = <<>>
  /\ i' = 0
  /\ UNCHANGED topology

\* variant: the refractory test with >= in place of >
ActiveSet_AtLeast(m, now, st, ty) ==
  IF m = "LIF"
  THEN {j \in Neurons : now - st[j] >= ref[ty[j]] \/ st[j] = NEVER}
  ELSE Neurons

\* the active set of a step (lines 253-261)
ActiveSet(m, now, st, ty) ==
  IF m = "LIF"
  THEN {j \in Neurons : now - st[j] > ref[ty[j]] \/ st[j] = NEVER}
  ELSE Neurons

\* variant: no transient marker, the integrated potential is kept
TransientV_Kept(V, sp) == V

\* self.Vs[self.spikes] = 0 (line 280)
TransientV(V, sp) == [j \in Neurons |-> IF sp[j] THEN 0 ELSE V[j]]

\* variant: the permanent reset left out
PermanentReset_Skipped(V, sp, cfg) == V

\* self.Vs[self.spikes] = self.Vreset (line 293)
PermanentReset(V, sp, cfg) == [j \in Neurons |-> IF sp[j] THEN Vreset(cfg) ELSE V[j]]

\* the recurrent current of a step (lines 281-285), V being self.Vs at that point
RecurrentCurrent(m, conn, isyn, V) ==
  IF m = "SFA"
  THEN [j \in Neurons |-> Dot(conn, isyn, neuron_num, j)
                          - Mul(Dot(connections_bool(conn), isyn, neuron_num, j), V[j])]
  ELSE [j \in Neurons |-> Dot(conn, isyn, neuron_num, j)]

\* the external current of input_type 1 (lines 266-267), V being self.Vs at that point
InputCoupling(inconn, iin, V) ==
  [j \in Neurons |-> Dot(inconn, iin, input_num, j)
                     - Mul(Dot(in_connections_bool(inconn), iin, input_num, j), V[j])]

\* numpy broadcasting of I_cur + self.EPSC (line 296): defined when I_cur has
\* neuron_num entries or a single one
Broadcasts(cur) == Len(cur) = neuron_num \/ Len(cur) = 1
BroadcastAdd(cur, e) ==
  [j \in Neurons |-> (IF Len(cur) = 1 THEN cur[1] ELSE cur[j + 1]) + e[j]]

\* a vector indexed by neuron as the 1-based sequence I_cur is held in
AsSeq(f) == [k \in 1 .. neuron_num |-> f[k - 1]]

\* self.Vs[active_neurons] = self.Vs[active_neurons] + self.dt * self.model() (line 273)
Integrate(V, act, deriv) ==
  [j \in Neurons |-> IF j \in act THEN V[j] + dt * deriv[j] ELSE V[j]]

\* self.spikes = self.Vs > self.Vth (line 275)
SpikeDetect(V) == [j \in Neurons |-> V[j] > Vth]

\* self.spikes_t[self.spikes] = t_cur (line 278)
SpikeTimes(st, sp, now) == [j \in Neurons |-> IF sp[j] THEN now ELSE st[j]]

\* self.input_t[np.where(I[i - 1])] = t_cur (line 265); row is 1-based
\* an index beyond the last channel raises IndexError
BadIndex(row) == \E c \in DOMAIN row : row[c] # 0 /\ c > input_num
InputTimes(it, row, now) ==
  [c \in Inputs |-> IF c + 1 \in DOMAIN row /\ row[c + 1] # 0 THEN now ELSE it[c]]

\* One iteration of the loop of run_model on the row `row` of I, a sequence of
\* I.shape[1] entries.  Every intermediate value is bound once, in the order
\* the loop body computes it.
Step ==
  /\ pc = "running"
  /\ i < I_shape[1]
  /\ \E row \in [1 .. I_shape[2] -> InputValues(input_type)] :
     \E now \in {(i + 1) * dt} :
     \E act \in {ActiveSet(model_type, now, spikes_t, type_array)} :
       /\ t' = now
       /\ i' = i + 1
       /\ active' = act
       /\ I_seq' = Append(I_seq, row)
       /\ IF input_type = 1 /\ BadIndex(row)
          THEN /\ pc' = "failed"                      \* IndexError at line 265
               /\ UNCHANGED <<input_t, spikes, spikes_t, Vs, Is, EPSC, n, Ia, I_cur>>
               /\ UNCHANGED <<Vseq, spikes_seq, EPSC_seq, n_seq>>
          ELSE
            \E new_input_t \in {IF input_type = 1 THEN InputTimes(input_t, row, now) ELSE input_t} :
            \E cur \in {IF input_type = 1
                        THEN AsSeq(InputCoupling(input_connections,
                                     input_current(model_type, now, new_input_t), Vs))
                        ELSE row} :
            \E new_n \in {IF model_type = "SFA" THEN K_frac(now, spikes_t, n) ELSE n} :
            \E new_Ia \in {IF model_type = "SFA" THEN AdaptationCurrent(new_n, Vs) ELSE Ia} :
            \E V1 \in {Integrate(Vs, act, IF model_type = "SFA" THEN SFA(Vs, Is, new_Ia)
                                                           ELSE LIF(Vs, Is))} :
            \E sp \in {SpikeDetect(V1)} :
            \E new_spikes_t \in {SpikeTimes(spikes_t, sp, now)} :
            \E V2 \in {TransientV(V1, sp)} :
            \E epsc \in {RecurrentCurrent(model_type, connections,
                           synaptic_current(model_type, now, new_spikes_t, type_array), V2)} :
              /\ input_t' = new_input_t
              /\ I_cur' = cur
              /\ n' = new_n
              /\ Ia' = new_Ia
              /\ spikes' = sp
              /\ spikes_t' = new_spikes_t
              /\ EPSC' = epsc
              /\ Vseq' = [Vseq EXCEPT ![i + 1] = V2]
              /\ spikes_seq' = [spikes_seq EXCEPT ![i + 1] = [j \in Neurons |-> IF sp[j] THEN 1 ELSE 0]]
              /\ EPSC_seq' = [EPSC_seq EXCEPT ![i + 1] = epsc]
              /\ n_seq' = [n_seq EXCEPT ![i + 1] = new_n]
              /\ Vs' = PermanentReset(V2, sp, VresetConfig)
              /\ IF Broadcasts(cur)
                 THEN /\ Is' = BroadcastAdd(cur, epsc)
                      /\ pc' = IF i + 1 = I_shape[1] THEN "done" ELSE "running"
                 ELSE /\ Is' = Is                     \* ValueError at line 296
                      /\ pc' = "failed"
  /\ UNCHANGED <<topology, I_shape, input_type>>

Next == StartRun \/ Step
Spec == Init /\ [][Next]_vars

\* ================================================================ properties
\* the last loop iteration ran to its end
Completed == pc \in {"running", "done"} /\ i >= 1

\* the transition is a loop iteration that ran to its end
CompletedStep == i' = i + 1 /\ pc' \in {"running", "done"}

\* C1: in a LIF run a neuron whose last spike was at s is outside the active
\* set of every step at t with 0 < t - s <= ref[type] and its potential is not
\* integrated there; it is in the active set of a step with t - s > ref[type];
\* a neuron that has never spiked is in the active set of every step.
C1_RefractoryExclusion ==
  [][(model_type = "LIF" /\ pc = "running" /\ i' = i + 1) =>
       \A j \in Neurons :
         /\ spikes_t[j] = NEVER => j \in active'
         /\ (spikes_t[j] # NEVER /\ 0 < t' - spikes_t[j] /\ t' - spikes_t[j] <= ref[type_array[j]])
              => (j \notin active' /\ Vs'[j] = Vs[j])
         /\ (spikes_t[j] # NEVER /\ t' - spikes_t[j] > ref[type_array[j]]) => j \in active']_vars

\* a neuron that spiked earlier in this LIF run, sat out its refractory steps
\* and is in the active set again
C1_Witness ==
  /\ model_type = "LIF" /\ Completed
  /\ \E j \in Neurons : \E k \in 1 .. (i - 1) :
       /\ spikes_seq[k][j] = 1
       /\ j \in active
       /\ i - k = ref[type_array[j]] + 1

\* C2: a neuron marked spiking holds Vth - VresetConfig as its stored
\* potential once the step is over, not the transient 0.
C2_ResetCorrect ==
  \A j \in Neurons : spikes[j] => Vs[j] = Vth - VresetConfig

\* an SFA run with a spike recorded in a step that is followed by another
C2_Witness ==
  /\ model_type = "SFA" /\ pc = "running" /\ i >= 1
  /\ \E j \in Neurons : spikes[j] /\ Vseq[i][j] = 0 /\ Vs[j] # 0

\* C3: every call of run_model starts from a fully reinitialised state,
\* input activation times included.
C3_FreshRunState ==
  (pc = "running" /\ i = 0) =>
     /\ Vs = [j \in Neurons |-> Vr]
     /\ spikes_t = [j \in Neurons |-> NEVER]
     /\ input_t = [c \in Inputs |-> NEVER]
     /\ Is = ZeroVec /\ EPSC = ZeroVec /\ n = ZeroVec

\* C4: in a LIF run the current of neuron j is the sum over the rows a of
\* connections[a][j] * I_syn[a] (row presynaptic, column postsynaptic).
C4_RowIsPresynaptic ==
  (model_type = "LIF" /\ Completed) =>
     \A j \in Neurons :
        EPSC[j] = SumTo([a \in Neurons |->
                           connections[a][j] * synaptic_current_LIF(t, spikes_t, type_array)[a]],
                        neuron_num - 1)

\* every row of I read so far is zero
ZeroInput == \A k \in DOMAIN I_seq : \A c \in DOMAIN I_seq[k] : I_seq[k][c] = 0

\* C5: with an all-zero injected array every potential stays at Vr, nothing
\* spikes, and EPSC and the driving current stay 0, after every step.
C5_ZeroInputStability ==
  (Completed /\ ZeroInput) =>
     /\ Vs = [j \in Neurons |-> Vr]
     /\ spikes = [j \in Neurons |-> FALSE]
     /\ spikes_t = [j \in Neurons |-> NEVER]
     /\ EPSC = ZeroVec
     /\ Is = ZeroVec

\* the channel dimension of I disagrees with the network
ShapeMismatch ==
  pc # "idle" /\ I_shape[2] # (IF input_type = 1 THEN input_num ELSE neuron_num)

\* C6: a call with a mismatched channel dimension fails before any step is
\* executed and never completes.
C6_ShapeFailFast ==
  ShapeMismatch => (i = 0 /\ pc # "done")

\* C7: an input weight is 0 or the table entry keyed (excitatory, type of the
\* target neuron).
C7_InputWeightKey ==
  \A j \in Neurons : \A c \in Inputs :
     input_connections[j][c] \in {0, V_syn[<<1, type_array[j]>>]}

\* C8: the diagonal of connections is zero and neither matrix is ever written
\* after construction.
C8_TopologyFixed ==
  /\ [](\A j \in Neurons : connections[j][j] = 0)
  /\ [][connections' = connections /\ input_connections' = input_connections]_vars

\* a run ended with spikes recorded on a network that has both kinds of edge
C8_Witness ==
  /\ pc = "done"
  /\ \E a, b \in Neurons : connections[a][b] # 0
  /\ \E j \in Neurons : \E c \in Inputs : input_connections[j][c] # 0
  /\ \E j \in Neurons : spikes_t[j] # NEVER

\* C9: in a LIF run with VresetConfig >= 0 a neuron outside the active set of
\* a step is not marked spiking in it and its last-spike time is not refreshed.
C9_RefractoryNoSpike ==
  (model_type = "LIF" /\ VresetConfig >= 0 /\ Completed) =>
     \A j \in Neurons \ active : ~spikes[j] /\ spikes_t[j] # t

\* a completed LIF step with a refractory neuron while another neuron spikes
C9_Witness ==
  /\ model_type = "LIF" /\ VresetConfig >= 0 /\ Completed
  /\ \E j \in Neurons \ active : \E k \in Neurons : spikes[k]

\* C10 as stated: for a spiking neuron both the SFA recurrent term and the
\* input coupling term of the step are evaluated with V = 0.
C10_TransientInBothTerms ==
  Completed =>
     \A j \in Neurons : spikes[j] =>
        /\ model_type = "SFA" =>
             EPSC[j] = RecurrentCurrent(model_type, connections,
                          synaptic_current(model_type, t, spikes_t, type_array), ZeroVec)[j]
        /\ input_type = 1 =>
             I_cur[j + 1] = InputCoupling(input_connections,
                               input_current(model_type, t, input_t), ZeroVec)[j]

\* C10 amended: for a spiking neuron the SFA recurrent term is evaluated with
\* V = 0, and the input coupling term with the potential the neuron had when
\* the step began.
C10_TransientInRecurrentTerm ==
  [][CompletedStep =>
       \A j \in Neurons : spikes'[j] =>
          /\ model_type = "SFA" =>
               EPSC'[j] = RecurrentCurrent(model_type, connections,
                             synaptic_current(model_type, t', spikes_t', type_array), ZeroVec)[j]
          /\ input_type = 1 =>
               I_cur'[j + 1] = InputCoupling(input_connections,
                                  input_current(model_type, t', input_t'), Vs)[j]]_vars

\* an SFA step with input_type 1 in which a neuron spikes while both terms
\* are live: the recurrent mask term is nonzero and the input coupling term
\* differs from its value at V = 0
C10_Witness ==
  /\ model_type = "SFA" /\ input_type = 1 /\ Completed
  /\ \E j \in Neurons :
       /\ spikes[j]
       /\ Dot(connections_bool(connections),
              synaptic_current(model_type, t, spikes_t, type_array), neuron_num, j) # 0
       /\ I_cur[j + 1] # InputCoupling(input_connections,
                            input_current(model_type, t, input_t), ZeroVec)[j]

\* the transition is a loop iteration that got as far as the integration of
\* line 273 (an IndexError at line 265 is the only way not to)
IntegratingStep == i' = i + 1 /\ pc = "running" /\ ~(input_type = 1 /\ pc' = "failed")

\* C11: the derivative of a step is driven by the current stored when the
\* previous step ended, I_cur + EPSC of that step, and by 0 in the first step
\* of a run; the row read in a step has no part in the potential integrated
\* and recorded in that step.  So after the first step of any run every
\* potential is Vr and nothing spikes, whatever the first row.
C11_DrivingCurrentLags ==
  /\ [](pc = "running" =>
          \A j \in Neurons :
             Is[j] = IF i = 0 THEN 0
                     ELSE (IF Len(I_cur) = 1 THEN I_cur[1] ELSE I_cur[j + 1]) + EPSC[j])
  /\ []((i = 1 /\ pc # "idle" /\ ~(input_type = 1 /\ pc = "failed")) =>
          /\ Vs = [j \in Neurons |-> Vr]
          /\ Vseq[1] = [j \in Neurons |-> Vr]
          /\ spikes = [j \in Neurons |-> FALSE])
  /\ [][IntegratingStep =>
          \A j \in Neurons :
             Vseq'[i + 1][j] =
                IF spikes'[j] THEN 0
                ELSE IF j \notin active' THEN Vs[j]
                ELSE IF model_type = "SFA"
                     THEN Vs[j] + dt * ((Vr - Vs[j] + (Is[j] - Ia'[j]) * R) \div tau)
                     ELSE Vs[j] + dt * ((Vr - Vs[j] + Is[j] * R) \div tau)]_vars

\* a current injected in the first row leaves every potential of step 1 at
\* Vr and moves a potential of step 2, whose own row is zero
C11_Witness ==
  /\ pc \in {"running", "done"} /\ i = 2 /\ input_type = 0
  /\ \E c \in DOMAIN I_seq[1] : I_seq[1][c] # 0
  /\ \A c \in DOMAIN I_seq[2] : I_seq[2][c] = 0
  /\ Vseq[1] = [j \in Neurons |-> Vr]
  /\ \E j \in Neurons : Vseq[2][j] # Vr
====
